---- MODULE Spec2Model ----
(***************************************************************************)
(* World-mode progression of Arcaea_Server/core/world.py: the per-user     *)
(* map rows (user_world), the user's lephon phase (user_world_map), the    *)
(* UserMap.climb algorithm with its lephon_nell phase machine, and the     *)
(* play pipeline of BaseWorldPlay.update around it.                        *)
(*                                                                         *)
(* Progress values are integers here (the code takes floats); a step list  *)
(* is named by an id and its tiles are given by StepCount/Capture/Tags.    *)
(***************************************************************************)
EXTENDS Integers, Sequences, FiniteSets, TLC

VARIABLES
    world,              \* MapParser.map_id_path: the map ids of the content directory
    current_map,        \* user.current_map ("" before the first choice)
    user_world,         \* table user_world: map id -> row, or NoRow
    lephon_nell_state,  \* table user_world_map: the user's lephon phase
    last,               \* the objects of the last request as its response shows them
    stamina,            \* a Stamina object, the clock it reads and its last call
    catalog,            \* the class attributes of MapParser and the workers constructing it
    pipe,               \* the plays two workers run for one user, step by step
    wp,                 \* the user's kanae store and beyond boost gauge, and the last world play
    claimed             \* the steps whose items user_claim_item has given the user

\* the state the world-map requests leave alone
elsewhere == <<stamina, catalog, pipe, wp>>

\* the state of the world-map requests
worldvars == <<world, current_map, user_world, lephon_nell_state, last, claimed>>

vars == <<world, current_map, user_world, lephon_nell_state, last, elsewhere, claimed>>

-----------------------------------------------------------------------------
(* Bounds of the model *)

\* largest step_value (final_progress) a play passes to climb
MaxStep == 3
\* number of tiles of each lephon_nell phase step list
LephonLen == 202
\* number of tiles of the small maps
SmallLen == 5

(* Constants of the code *)

Phase2Pos == 44
Phase3Pos == 200
Phase4Pos == 65
NellTiles == 4
RecoilTiles == 13

-----------------------------------------------------------------------------
(* Content: the map descriptors and step lists (JSON files) *)

LEPHON == "lephon_nell"

\* normal_a: a walled map gated by a pack; plain_e: a plain ladder;
\* repeat_b: repeatable; beyond_c: beyond; breached_d: beyond and breached
OtherMaps == {"normal_a", "plain_e", "repeat_b", "beyond_c", "breached_d"}

\* sweep_f: the five-step map of capture 10 of the normal-climb scenario
ScenarioMaps == {"sweep_f"}

MapIds == {LEPHON} \cup OtherMaps \cup ScenarioMaps

IsBeyond(m) == m \in {"beyond_c", "breached_d"}

IsBreached(m) == m = "breached_d"

IsRepeatable(m) == m = "repeat_b"

RequireType(m) == IF m = "normal_a" THEN "pack" ELSE ""

\* lephon_nell phases live in 1.json .. 4.json, indexed by phase 0..3
PhaseList(p) ==
    CASE p = 0 -> "phase0"
      [] p = 1 -> "phase1"
      [] p = 2 -> "phase2"
      [] OTHER -> "phase3"

IsLephonList(sl) == sl \in {LEPHON, "phase0", "phase1", "phase2", "phase3"}

StepCount(sl) ==
    IF IsLephonList(sl) THEN LephonLen
    ELSE IF sl \in ScenarioMaps THEN 5
    ELSE SmallLen

\* every tile but the last has capture 2; the last tile has capture 0;
\* every tile of sweep_f has capture 10
Capture(sl, i) ==
    IF sl \in ScenarioMaps THEN 10
    ELSE IF i = StepCount(sl) - 1 THEN 0 ELSE 2

Tags(sl, i) ==
    CASE sl \in {LEPHON, "phase0", "phase2"} /\ i = 2 -> {"wall_nell"}
      [] sl \in {LEPHON, "phase0", "phase2"} /\ i = 4 -> {"wall_impossible"}
      [] sl = "phase3" /\ i = 52 -> {"special_lament_rain"}
      [] sl = "normal_a" /\ i = 2 -> {"wall_impossible"}
      [] sl = "plain_e" /\ i = 1 -> {"plusstamina"}
      [] OTHER -> {}

\* plus_stamina_value of a tile: set on the plusstamina tiles
PlusStaminaValue(sl, i) == IF "plusstamina" \in Tags(sl, i) THEN 2 ELSE 0

\* the reward items of a tile: every tile of sweep_f carries its own item, the
\* other step lists carry items on some tiles, the first tile among them
Items(sl, i) ==
    CASE sl \in ScenarioMaps -> {<<"core", i>>}
      [] IsLephonList(sl) /\ i \in {3, 6, 60} -> {<<"fragment", i>>}
      [] ~IsLephonList(sl) /\ i \in {0, 1} -> {<<"fragment", i>>}
      [] ~IsLephonList(sl) /\ i = 3 -> {<<"fragment", i>>, <<"core", i>>}
      [] OTHER -> {}

RECURSIVE TotalCapture(_, _)
TotalCapture(sl, n) == IF n = 0 THEN 0 ELSE Capture(sl, n - 1) + TotalCapture(sl, n - 1)

\* the health pool of a beyond map equals the total capture of its tiles
BeyondHealth(m) == TotalCapture(m, StepCount(m))

-----------------------------------------------------------------------------
(* Python list indexing: steps[i] accepts -len <= i < len *)

InRange(sl, i) == -StepCount(sl) <= i /\ i < StepCount(sl)

PyIdx(sl, i) == IF i < 0 THEN StepCount(sl) + i ELSE i

StepCapture(sl, i) == Capture(sl, PyIdx(sl, i))

StepTags(sl, i) == Tags(sl, PyIdx(sl, i))

StepItems(sl, i) == Items(sl, PyIdx(sl, i))

Min(a, b) == IF a < b THEN a ELSE b

Max(a, b) == IF a > b THEN a ELSE b

-----------------------------------------------------------------------------
(* Rows and objects *)

NoRow == [pos |-> 0, cap |-> 0, locked |-> TRUE, exists |-> FALSE]

Row(p, c, l) == [pos |-> p, cap |-> c, locked |-> l, exists |-> TRUE]

\* UserMap.__init__: nothing is loaded yet (curr_position is None)
NewUserMap(m) ==
    [map |-> m, loaded |-> FALSE, pos |-> 0, cap |-> 0, locked |-> TRUE,
     hasprev |-> FALSE, ppos |-> 0, pcap |-> 0,
     steps |-> m, ow |-> "none", smod |-> FALSE,
     lactive |-> FALSE, lfinal |-> FALSE]

\* UserMap.select: read the row (a missing row reads as (0, 0, locked) and is
\* inserted), set lephon_final, substitute the phase step list on lephon_nell
Select(um, row, ust) ==
    LET ow == IF ust <= 3 /\ um.map = LEPHON THEN PhaseList(ust) ELSE um.ow
    IN  [um EXCEPT !.loaded = TRUE,
                   !.pos = row.pos, !.cap = row.cap, !.locked = row.locked,
                   !.lfinal = (ust = 3), !.lactive = (ust = 3),
                   !.ow = ow,
                   !.steps = IF ow # "none" THEN ow ELSE um.map]

-----------------------------------------------------------------------------
(* The loops of UserMap.climb *)

\* nell-toggle jump: up to NellTiles tiles forward, stopping on a wall_impossible tile
RECURSIVE JumpLoop(_, _, _, _)
JumpLoop(sl, i, j, remain) ==
    IF remain > 0 /\ i < StepCount(sl)
    THEN IF "wall_impossible" \in StepTags(sl, i)
         THEN [i |-> i, j |-> j]
         ELSE JumpLoop(sl, i + 1, j + StepCapture(sl, i), remain - 1)
    ELSE [i |-> i, j |-> j]

\* final-phase recoil: RecoilTiles tiles back; steps[i] raises IndexError below -len
RECURSIVE RecoilLoop(_, _, _, _)
RecoilLoop(sl, i, j, remain) ==
    IF remain > 0
    THEN IF ~InRange(sl, i)
         THEN [i |-> i, j |-> j, err |-> "IndexError"]
         ELSE RecoilLoop(sl, i - 1, j - StepCapture(sl, i), remain - 1)
    ELSE [i |-> i, j |-> j, err |-> "none"]

\* beyond scan: the tile reached by consuming t of capture from tile 0
RECURSIVE BeyondLoop(_, _, _)
BeyondLoop(sl, i, t) ==
    IF i < StepCount(sl) /\ t > 0
    THEN IF StepCapture(sl, i) > t
         THEN BeyondLoop(sl, i, 0)
         ELSE BeyondLoop(sl, i + 1, t - StepCapture(sl, i))
    ELSE i

\* faulty variant of WalkBlocked: wall_impossible does not stop the walk
WalkBlockedNellOnly(sl, i, lactive) ==
    StepTags(sl, i) # {} /\ ~lactive /\ "wall_nell" \in StepTags(sl, i)

\* faulty variant of WalkBlocked: wall_nell does not stop the walk
WalkBlockedImpossibleOnly(sl, i, lactive) ==
    StepTags(sl, i) # {} /\ "wall_impossible" \in StepTags(sl, i)

\* whether the walk stops on tile i
WalkBlocked(sl, i, lactive) ==
    StepTags(sl, i) # {}
    /\ ("wall_impossible" \in StepTags(sl, i)
        \/ (~lactive /\ "wall_nell" \in StepTags(sl, i)))

\* faulty variant of WalkLoop: an exact hit stays on the tile (dt >= t for dt > t)
RECURSIVE WalkLoopInclusive(_, _, _, _, _)
WalkLoopInclusive(sl, i, j, t, lactive) ==
    IF t > 0 /\ i < StepCount(sl)
    THEN IF WalkBlocked(sl, i, lactive)
         THEN [i |-> i, j |-> j]
         ELSE LET dt == StepCapture(sl, i) - j
              IN  IF dt >= t
                  THEN WalkLoopInclusive(sl, i, j + t, 0, lactive)
                  ELSE WalkLoopInclusive(sl, i + 1, 0, t - dt, lactive)
    ELSE [i |-> i, j |-> j]

\* normal walk from (i, j) with budget t
RECURSIVE WalkLoop(_, _, _, _, _)
WalkLoop(sl, i, j, t, lactive) ==
    IF t > 0 /\ i < StepCount(sl)
    THEN IF WalkBlocked(sl, i, lactive)
         THEN [i |-> i, j |-> j]
         ELSE LET dt == StepCapture(sl, i) - j
              IN  IF dt > t
                  THEN WalkLoop(sl, i, j + t, 0, lactive)
                  ELSE WalkLoop(sl, i + 1, 0, t - dt, lactive)
    ELSE [i |-> i, j |-> j]

\* the iterations of the nell-toggle jump (the one that breaks on a wall counted)
RECURSIVE JumpCount(_, _, _)
JumpCount(sl, i, remain) ==
    IF remain > 0 /\ i < StepCount(sl)
    THEN IF "wall_impossible" \in StepTags(sl, i) THEN 1
         ELSE 1 + JumpCount(sl, i + 1, remain - 1)
    ELSE 0

\* the iterations the recoil completes before it ends or steps[i] raises
RECURSIVE RecoilCount(_, _, _)
RecoilCount(sl, i, remain) ==
    IF remain > 0 /\ InRange(sl, i) THEN 1 + RecoilCount(sl, i - 1, remain - 1) ELSE 0

\* the iterations of the beyond scan
RECURSIVE BeyondCount(_, _, _)
BeyondCount(sl, i, t) ==
    IF i < StepCount(sl) /\ t > 0
    THEN 1 + (IF StepCapture(sl, i) > t
              THEN BeyondCount(sl, i, 0)
              ELSE BeyondCount(sl, i + 1, t - StepCapture(sl, i)))
    ELSE 0

\* the iterations of the normal walk (the one that breaks on a wall counted)
RECURSIVE WalkCount(_, _, _, _, _)
WalkCount(sl, i, j, t, lactive) ==
    IF t > 0 /\ i < StepCount(sl)
    THEN IF WalkBlocked(sl, i, lactive) THEN 1
         ELSE 1 + (IF StepCapture(sl, i) - j > t
                   THEN WalkCount(sl, i, j + t, 0, lactive)
                   ELSE WalkCount(sl, i + 1, 0, t - (StepCapture(sl, i) - j), lactive))
    ELSE 0

-----------------------------------------------------------------------------
(* UserMap.climb.  um0: the object; row: its user_world row; ust: the value  *)
(* of user.lephon_nell_state; dbst: the phase stored in user_world_map.      *)
(* The result holds the object, the stored phase, the error raised and the   *)
(* branch of the code that produced the position.                            *)

Outcome(um, st, branch, err) == [um |-> um, st |-> st, branch |-> branch, err |-> err]

\* the lephon phase machine: the value of the local user_lephon_nell_state
NextPhase(isL, ust, curTags) ==
    LET st1 == IF isL /\ ust = 0 /\ curTags # {} /\ "wall_impossible" \in curTags
               THEN 1 ELSE ust
    IN  IF isL /\ st1 > 0 /\ st1 < 3 THEN st1 + 1 ELSE st1

\* the value step_value has after the wall handling on the current tile
ForcedStep(um, curTags, sv) ==
    IF curTags # {}
       /\ ((~um.lfinal /\ um.lactive)
           \/ (~um.lfinal /\ "wall_impossible" \in curTags)
           \/ (um.lfinal /\ "special_lament_rain" \in curTags))
    THEN 0 ELSE sv

\* set (curr_position, curr_capture)
At(um, p, c) == [um EXCEPT !.pos = p, !.cap = c]

\* a phase teleport: also prev := curr
Teleport(um, p) == [um EXCEPT !.pos = p, !.cap = 1, !.ppos = p, !.pcap = 1]

\* lines 555-570: the final-phase branch
FinalBranch(um, st, clear) ==
    IF clear = 0
    THEN LET r == RecoilLoop(um.steps, um.pos, um.cap, RecoilTiles)
         IN  IF r.err # "none" THEN Outcome(um, st, "recoil", r.err)
             ELSE IF r.i < 0 THEN Outcome(At(um, 0, 0), st, "recoil", "none")
             ELSE Outcome(At(um, r.i, r.j), st, "recoil", "none")
    ELSE Outcome(um, st, "final", "none")

\* lines 572-592: the beyond branch
BeyondBranch(um, st, sv) ==
    LET health == BeyondHealth(um.map)
        cap == IF health - um.pcap >= sv THEN um.pcap + sv ELSE health
        i == BeyondLoop(um.steps, 0, um.pcap + sv)
        p == IF i >= StepCount(um.steps) THEN StepCount(um.steps) - 1 ELSE i
    IN  Outcome(At(um, p, cap), st, "beyond", "none")

\* faulty variant of NormalBranch: the walk forgets prev_capture (j starts at 0)
NormalBranchDropCapture(um, st, sv) ==
    LET r == WalkLoop(um.steps, um.ppos, 0, sv, um.lactive)
    IN  IF r.i >= StepCount(um.steps)
        THEN Outcome(At(um, StepCount(um.steps) - 1, 0), st, "normal", "none")
        ELSE Outcome(At(um, r.i, r.j), st, "normal", "none")

\* lines 594-622: the normal branch
NormalBranch(um, st, sv) ==
    LET r == WalkLoop(um.steps, um.ppos, um.pcap, sv, um.lactive)
    IN  IF r.i >= StepCount(um.steps)
        THEN Outcome(At(um, StepCount(um.steps) - 1, 0), st, "normal", "none")
        ELSE Outcome(At(um, r.i, r.j), st, "normal", "none")

\* lines 503-523: the nell-toggle jump
JumpBranch(um, st) ==
    LET r == JumpLoop(um.steps, um.pos, um.cap, NellTiles)
    IN  IF r.i >= StepCount(um.steps)
        THEN Outcome(At(um, StepCount(um.steps) - 1, 0), st, "jump", "none")
        ELSE Outcome(At(um, r.i, r.j), st, "jump", "none")

\* lines 503-622, after the phase machine and the prev snapshot.
\* phase: the local user_lephon_nell_state; st: the stored phase
Move(um, curTags, phase, st, sv, toggle, clear) ==
    IF curTags # {} /\ ~um.lfinal /\ um.lactive /\ toggle
    THEN JumpBranch(um, st)
    ELSE LET t == ForcedStep(um, curTags, sv)
         IN  IF phase = 1 THEN Outcome(Teleport(um, Phase2Pos), st, "teleport", "none")
             ELSE IF phase = 2 THEN Outcome(Teleport(um, Phase3Pos), st, "teleport", "none")
             ELSE IF phase = 3 /\ um.ppos = Phase3Pos
                  THEN Outcome(Teleport(um, Phase4Pos), st, "teleport", "none")
             ELSE IF um.lfinal THEN FinalBranch(um, st, clear)
             ELSE IF IsBeyond(um.map) THEN BeyondBranch(um, st, t)
             ELSE NormalBranch(um, st, t)

\* lines 465-501: the phase machine, the step list reload, lephon_active, prev
Machine(um, ust, dbst, sv, toggle, clear) ==
    LET isL == um.map = LEPHON
        curTags == StepTags(um.steps, um.pos)
        phase == NextPhase(isL, ust, curTags)
        smod == IF isL /\ phase # ust THEN TRUE ELSE um.smod
        ow == IF isL /\ phase # 0 THEN PhaseList(phase) ELSE um.ow
        steps == IF isL THEN (IF ow # "none" THEN ow ELSE um.map) ELSE um.steps
        st == IF isL THEN phase ELSE dbst
        um1 == [um EXCEPT !.smod = smod, !.ow = ow, !.steps = steps, !.lactive = FALSE]
    IN  IF isL /\ ~InRange(steps, um.pos)
        THEN Outcome(um1, st, "none", "IndexError")
        ELSE LET x == StepTags(steps, um.pos)
                 lactive == isL /\ x # {} /\ ~um.lfinal
                            /\ ("wall_nell" \in x \/ "wall_impossible" \in x)
                 um2 == [um1 EXCEPT !.lactive = lactive, !.hasprev = TRUE,
                                    !.ppos = um.pos, !.pcap = um.cap]
             IN  Move(um2, curTags, phase, st, sv, toggle, clear)

\* faulty variant of Climb: the locked check is missing
ClimbIgnoreLock(um0, row, ust, dbst, sv, toggle, clear) ==
    LET um == IF um0.loaded THEN um0 ELSE Select(um0, row, ust)
    IN  IF IsBeyond(um.map) /\ sv < 0 THEN Outcome(um, dbst, "none", "InputError")
        ELSE IF ~InRange(um.steps, um.pos) THEN Outcome(um, dbst, "none", "IndexError")
        ELSE Machine(um, ust, dbst, sv, toggle, clear)

\* faulty variant of Climb: the sign check of the beyond map is missing
ClimbIgnoreSign(um0, row, ust, dbst, sv, toggle, clear) ==
    LET um == IF um0.loaded THEN um0 ELSE Select(um0, row, ust)
    IN  IF um.locked THEN Outcome(um, dbst, "none", "MapLocked")
        ELSE IF ~InRange(um.steps, um.pos) THEN Outcome(um, dbst, "none", "IndexError")
        ELSE Machine(um, ust, dbst, sv, toggle, clear)

Climb(um0, row, ust, dbst, sv, toggle, clear) ==
    LET um == IF um0.loaded THEN um0 ELSE Select(um0, row, ust)
    IN  IF um.locked THEN Outcome(um, dbst, "none", "MapLocked")
        ELSE IF IsBeyond(um.map) /\ sv < 0 THEN Outcome(um, dbst, "none", "InputError")
        ELSE IF ~InRange(um.steps, um.pos) THEN Outcome(um, dbst, "none", "IndexError")
        ELSE Machine(um, ust, dbst, sv, toggle, clear)

\* UserMap.reclimb: curr := prev (None before the first climb), then climb
Reclimb(um, row, ust, dbst, sv, toggle, clear) ==
    Climb(IF um.hasprev THEN At(um, um.ppos, um.pcap) ELSE [um EXCEPT !.loaded = FALSE],
          row, ust, dbst, sv, toggle, clear)

-----------------------------------------------------------------------------
(* The play pipeline *)

StepValues == -1 .. MaxStep

ClearTypes == {0, 1}

\* after_climb: either no post-hook acts, or a skill post-hook reclimbs
Hooks == {"none", "reclimb"}

\* user.lephon_nell_state as a later climb of the same request reads it: the
\* value loaded with the user, or the value climb has stored since
UserLephonState(loaded, stored, fresh) == IF fresh THEN stored ELSE loaded

\* BaseWorldPlay.update / BreachedWorldPlay.update up to after_climb
FirstClimb(m, row, ust, sv, toggle, clear) ==
    IF IsBreached(m)
    THEN Reclimb(NewUserMap(m), row, ust, ust, sv, toggle, clear)
    ELSE Climb(NewUserMap(m), row, ust, ust, sv, toggle, clear)

\* rewards_for_climbing and steps_for_climbing[-1] as after_update reads them:
\* the error they raise on positions outside the step list
ClimbedError(um) ==
    LET lo == Min(um.ppos, um.pos)
        hi == Max(um.ppos, um.pos)
        n == StepCount(um.steps)
    IN  IF hi > lo /\ hi >= n THEN "IndexError"
        ELSE IF lo >= n THEN "IndexError"
        ELSE "none"

\* faulty variant of Wrap: a repeatable map never wraps
WrapNever(um) == um

\* rewards_for_climbing: the {items, position} of the tiles i .. hi that carry items
RECURSIVE RewardsFrom(_, _, _)
RewardsFrom(sl, i, hi) ==
    IF i > hi THEN <<>>
    ELSE (IF StepItems(sl, i) # {}
          THEN <<[items |-> StepItems(sl, i), position |-> PyIdx(sl, i)]>>
          ELSE <<>>) \o RewardsFrom(sl, i + 1, hi)

\* faulty variant of RewardsForClimbing: the lower endpoint is swept too
RewardsForClimbingInclusive(um) ==
    RewardsFrom(um.steps, Min(um.ppos, um.pos), Max(um.ppos, um.pos))

\* rewards_for_climbing_to_dict: the tiles prev + 1 .. curr that carry items
RewardsForClimbingToDict(um) == RewardsFrom(um.steps, um.ppos + 1, um.pos)

RewardsForClimbing(um) ==
    RewardsFrom(um.steps, Min(um.ppos, um.pos) + 1, Max(um.ppos, um.pos))

\* steps_for_climbing: the slice steps[min(prev, curr) : max(prev, curr) + 1]
StepsForClimbing(um) ==
    {i \in 0 .. StepCount(um.steps) - 1 :
        Min(um.ppos, um.pos) <= i /\ i <= Max(um.ppos, um.pos)}

\* the stamina after_update adds (lines 1115-1120): plus_stamina_value of
\* steps_for_climbing[-1], the tile max(prev, curr), when it is a plusstamina tile
PlusStamina(um) ==
    LET hi == Max(um.ppos, um.pos)
    IN  IF "plusstamina" \in StepTags(um.steps, hi)
        THEN PlusStaminaValue(um.steps, PyIdx(um.steps, hi)) ELSE 0

\* the wrap of a repeatable map (after_update, lines 1128-1132)
Wrap(um) ==
    IF um.pos = StepCount(um.steps) - 1 /\ IsRepeatable(um.map)
    THEN [um EXCEPT !.pos = 0] ELSE um

\* BaseWorldPlay.after_update: the object that is persisted, and the error
AfterUpdate(o) ==
    IF o.err # "none" THEN o
    ELSE IF ClimbedError(o.um) # "none" THEN [o EXCEPT !.err = ClimbedError(o.um)]
    ELSE [o EXCEPT !.um = Wrap(o.um)]

\* the items after_update hands to user_claim_item (lines 1110-1113)
Granted(o) == IF AfterUpdate(o).err = "none" THEN RewardsForClimbing(o.um) ELSE <<>>

\* what the first climb of a play left, kept when a post-hook reclimbs with
\* the same step_value
NoFirst == [pos |-> 0, cap |-> 0, ppos |-> 0, pcap |-> 0, st |-> 0, ust |-> 0, branch |-> "none"]

FirstOf(o, ust) ==
    [pos |-> o.um.pos, cap |-> o.um.cap, ppos |-> o.um.ppos, pcap |-> o.um.pcap,
     st |-> o.st, ust |-> ust, branch |-> o.branch]

NoLast ==
    [op |-> "none", map |-> "", err |-> "none", hook |-> "none",
     sv |-> 0, toggle |-> FALSE, clear |-> 1, ust |-> 0, st |-> 0,
     pre |-> NewUserMap(""), um |-> NewUserMap(""), branch |-> "none",
     granted |-> <<>>, plus |-> 0, first |-> NoFirst]


-----------------------------------------------------------------------------
(* WorldPlay and BeyondWorldPlay: the progress of a play, the post-hooks
   luna_uncap, ayu_uncap and skill_kanae_uncap, the kanae store and the beyond
   boost gauge.  Progress is exact: a Normal play counts in 1/1000 and a
   Beyond play in 1/7000 of a capture unit, the gauge in 1/1000; step_times
   counts in 1/100.  The inputs are chosen so that every division is exact. *)

\* randint(-AyuBonus, AyuBonus) is the draw of ayu_uncap
AyuBonus == 10

\* Constant.LUNA_UNCAP_BONUS_PROGRESS
LunaBonus == 7

\* rating ** 0.5, for the ratings of PlayInputs
Sqrt(rating) == CHOOSE r \in 0 .. rating : r * r = rating

\* user_play.rating, the prog or overdrive value of the partner, and
\* stamina_multiply, fragment_multiply, prog_boost_multiply
PlayInputs ==
    [rating : {0, 9}, stat : {50, 160},
     mul : {<<1, 100, 0>>, <<2, 150, 0>>, <<1, 100, 300>>}]

\* faulty variant of StepTimes: the 1 of (prog_boost_multiply / 100 + 1) is missing
StepTimesNoBase(mul, usage) == (mul[1] * mul[2] * (mul[3] + usage)) \div 100

\* step_times, in 1/100; usage is beyond_boost_gauge_usage (0 on a Normal play)
StepTimes(mul, usage) == (mul[1] * mul[2] * (100 + mul[3] + usage)) \div 100

\* progress_normalized = base_progress * (stat / 50), the affinity multiplier 1
ProgressNormalized(variant, rating, clear, stat) ==
    IF variant = "normal"
    THEN ((2500 + 2450 * Sqrt(rating)) * stat) \div 50
    ELSE ((3010 * Sqrt(rating) + (IF clear = 0 THEN 6250 ELSE 18750)) * stat) \div 50

\* final_progress; bonus is character_bonus_progress_normalized, added and
\* stored are kanae_added_progress and kanae_stored_progress (0 for None)
FinalProgress(variant, pn, bonus, times, added, stored) ==
    IF variant = "normal"
    THEN ((pn + bonus) * times) \div 100 + added - stored
    ELSE (pn * times) \div 100

\* faulty variant of AyuClamp: the draw is taken as it comes
AyuUnclamped(pn, draw) == draw * 1000

\* _ayu_uncap: the bonus of a draw
AyuClamp(pn, draw) == IF pn + draw * 1000 < 0 THEN -pn ELSE draw * 1000

\* faulty variant of KanaeAfter: a released value stays in the store
KanaeAfterKept(kanae, stores, pn, added) == IF stores THEN pn ELSE kanae

\* WorldPlay.after_update: the persisted kanae_stored_prog
KanaeAfter(kanae, stores, pn, added) ==
    IF stores THEN pn ELSE IF added = 0 THEN kanae ELSE 0

\* faulty variant of NormalGauge: the cap is missing
NormalGaugeUncapped(gauge, rating) == gauge + 2450 * Sqrt(rating) + 27000

\* WorldPlay.after_update: beyond_boost_gauge_addition is added, up to 200
NormalGauge(gauge, rating) == Min(gauge + 2450 * Sqrt(rating) + 27000, 200000)

\* BeyondWorldPlay.after_update: a usage the gauge covers is spent
BeyondGauge(gauge, usage) ==
    IF usage # 0 /\ usage * 1000 <= gauge THEN gauge - usage * 1000 ELSE gauge

\* over_skill_increase, prog_skill_increase or new_law_prog is None
Unset == -1

\* the pending play of a token holds the beyond_boost_gauge_use of the request
TokenUsage(requested) == requested

\* _antiheroism: OVER - ||OVER - FRAG| - |OVER - PROG||; the sum of a number
\* and None raises TypeError
Antiheroism(overdrive, frag, prog, osi, psi) ==
    IF osi = Unset \/ psi = Unset
    THEN [err |-> "TypeError", value |-> Unset]
    ELSE LET over == overdrive + osi
             x == Max(over - frag, frag - over)
             y == Max(over - (prog + psi), (prog + psi) - over)
         IN  [err |-> "none", value |-> over - Max(x - y, y - x)]

\* no play yet, nothing stored, the gauge empty; plays counts the plays so far
NoPlay ==
    [kanae |-> 0, gauge |-> 0, op |-> "none", err |-> "none", skill |-> "none",
     sealed |-> FALSE, flag |-> FALSE, rating |-> 0, pn |-> 0, times |-> 0,
     draw |-> 0, bonus |-> 0, added |-> 0, stores |-> FALSE, usage |-> 0,
     svs |-> <<>>, prek |-> 0, preg |-> 0, plays |-> 0,
     osi |-> Unset, psi |-> Unset, prog |-> 0, law |-> Unset]

\* the plays of one user that are followed
MaxPlays == 4

-----------------------------------------------------------------------------
(* class MapParser: its class attributes are shared by the workers of the
   process; each worker constructs MapParser() and then reads the catalog *)

Workers == {1, 2}

\* the files os.walk yields, in its order
Files == <<"normal_a", "repeat_b", "beyond_c">>

FileIds == {Files[k] : k \in 1 .. Len(Files)}

\* the class attributes before the first construction; all files are of one chapter
NoCatalog ==
    [map_id_path |-> {}, chapter_info |-> <<>>, chapter_info_without_repeatable |-> <<>>,
     phases |-> FALSE,
     pc |-> [w \in Workers |-> "new"], file |-> [w \in Workers |-> 1],
     seen |-> [w \in Workers |-> {}],
     disk |-> 1, world_cache |-> [id \in FileIds |-> 0], phase_cache |-> 0,
     reinit |-> FALSE, served |-> [world |-> 0, phase |-> 0]]

\* the content files are rewritten at most MaxVersion - 1 times
MaxVersion == 2

\* the value an lru_cache'd reader returns: the cached parse if there is one
\* (0: none), else a parse of the file as it is on disk
Cached(entry, disk) == IF entry # 0 THEN entry ELSE disk

\* the indexes a parse of the content directory builds from empty indexes
FirstParse ==
    [map_id_path |-> FileIds, chapter_info |-> Files,
     chapter_info_without_repeatable |-> SelectSeq(Files, LAMBDA f : ~IsRepeatable(f))]

-----------------------------------------------------------------------------
(* BaseWorldPlay.update run by two workers for one user.  The tables are
   user_world, lephon_nell_state, pipe.boost (user.prog_boost) and
   pipe.claimed (the items each play has claimed). *)

\* final_progress of the concurrent plays
PipeValues == {-1, 1, 3}

\* where a hook raises, if one does
Failures == {"none", "pre", "post"}

NoInput == [sv |-> 0, hook |-> "none", sv2 |-> 0, fresh |-> FALSE, fail |-> "none"]

\* the tables as a play finds them
Tables(uw, st, boost) == [uw |-> uw, st |-> st, boost |-> boost]

NoPipe ==
    [pc |-> [w \in Workers |-> "idle"], lock |-> 0,
     inp |-> [w \in Workers |-> NoInput],
     snap |-> [w \in Workers |-> Tables(<<>>, 0, 0)],
     obj |-> [w \in Workers |-> Outcome(NewUserMap(""), 0, "none", "none")],
     claimed |-> [w \in Workers |-> <<>>],
     log |-> [w \in Workers |-> <<>>],
     boost |-> 0, db0 |-> Tables(<<>>, 0, 0)]

-----------------------------------------------------------------------------
(* class Stamina.  Times are in milliseconds. *)

\* Constant.MAX_STAMINA and Constant.STAMINA_RECOVER_TICK, scaled down
MaxStamina == 3

RecoverTick == 4

\* the instants of the clock
MaxTime == 2 * RecoverTick

\* the values a caller sets and the rows a select fetches
StaminaValues == -1 .. MaxStamina + 2

\* round(n / d) for d > 0 as Python 3 rounds: to nearest, ties to even
Round(n, d) ==
    LET q == n \div d
        r == n % d
    IN  IF 2 * r < d THEN q
        ELSE IF 2 * r > d THEN q + 1
        ELSE IF q % 2 = 0 THEN q ELSE q + 1

\* the value derived from max_stamina_ts at instant now
Derived(ts, now) == Round(MaxStamina * RecoverTick - (ts - now), RecoverTick)

\* Stamina.set_value: falsy arguments fall back to 0 and MAX_STAMINA
SetValue(ts, value) ==
    [ts |-> ts, raw |-> IF value # 0 THEN value ELSE MaxStamina]

\* the stamina property
Getter(ts, raw, now) ==
    LET d == Derived(ts, now)
    IN  IF d >= MaxStamina
        THEN (IF raw >= MaxStamina THEN raw ELSE MaxStamina)
        ELSE d

\* faulty variant of Setter: max_stamina_ts moves the wrong way
SetterWrongSign(value, now) ==
    [ts |-> now + (value - MaxStamina) * RecoverTick, raw |-> value]

\* the stamina setter, for an integer value
Setter(value, now) ==
    [ts |-> now - (value - MaxStamina) * RecoverTick, raw |-> value]

NoStamina ==
    [ts |-> 0, raw |-> MaxStamina, now |-> 0, op |-> "none",
     setv |-> 0, setat |-> -1, read |-> 0]

\* no world-map request has been served
NoWorld ==
    /\ world = {}
    /\ current_map = ""
    /\ user_world = [m \in MapIds |-> NoRow]
    /\ lephon_nell_state = 0
    /\ last = NoLast
    /\ claimed = {}

StaminaInit ==
    /\ NoWorld
    /\ catalog = NoCatalog
    /\ wp = NoPlay
    /\ pipe = NoPipe
    /\ \E ts \in 0 .. MaxTime, value \in 0 .. MaxStamina + 2 :
           stamina = [NoStamina EXCEPT !.ts = SetValue(ts, value).ts,
                                       !.raw = SetValue(ts, value).raw]

\* time passes
StaminaTick ==
    /\ stamina.now < MaxTime
    /\ stamina' = [stamina EXCEPT !.now = @ + 1, !.op = "tick"]
    /\ UNCHANGED <<worldvars, catalog, pipe, wp>>

\* stamina := value
StaminaSet ==
    \E value \in StaminaValues :
        /\ stamina' = [stamina EXCEPT !.ts = Setter(value, stamina.now).ts,
                                      !.raw = Setter(value, stamina.now).raw,
                                      !.op = "set",
                                      !.setv = value, !.setat = stamina.now]
        /\ UNCHANGED <<worldvars, catalog, pipe, wp>>

\* a read of the stamina property
StaminaGet ==
    /\ stamina' = [stamina EXCEPT !.op = "get",
                                  !.read = Getter(stamina.ts, stamina.raw, stamina.now)]
    /\ UNCHANGED <<worldvars, catalog, pipe, wp>>

StaminaNext == StaminaTick \/ StaminaSet \/ StaminaGet

StaminaSpec == StaminaInit /\ [][StaminaNext]_vars

-----------------------------------------------------------------------------
(* MapParser(): construction by concurrent workers *)

CatalogInit ==
    /\ NoWorld
    /\ stamina = NoStamina
    /\ catalog = NoCatalog
    /\ wp = NoPlay
    /\ pipe = NoPipe

\* MapParser.__init__: parse only when map_id_path is empty
Construct(w) ==
    /\ catalog.pc[w] = "new"
    /\ catalog' = [catalog EXCEPT !.pc[w] =
                       IF catalog.map_id_path = {} THEN "parse" ELSE "built"]
    /\ UNCHANGED <<worldvars, stamina, pipe, wp>>

\* MapParser.parse: the loop body for one file
ParseFile(w) ==
    /\ catalog.pc[w] = "parse"
    /\ catalog.file[w] <= Len(Files)
    /\ \E f \in {Files[catalog.file[w]]} :
           catalog' = [catalog EXCEPT
               !.map_id_path = @ \cup {f},
               !.world_cache[f] = Cached(@, catalog.disk),
               !.chapter_info = Append(@, f),
               !.chapter_info_without_repeatable =
                   IF IsRepeatable(f) THEN @ ELSE Append(@, f),
               !.file[w] = @ + 1]
    /\ UNCHANGED <<worldvars, stamina, pipe, wp>>

\* MapParser.parse: the lephon phase paths, and the return of the constructor
ParsePhases(w) ==
    /\ catalog.pc[w] = "parse"
    /\ catalog.file[w] > Len(Files)
    /\ catalog' = [catalog EXCEPT !.phases = TRUE, !.pc[w] = "built"]
    /\ UNCHANGED <<worldvars, stamina, pipe, wp>>

\* MapParser.get_world_all: the worker reads the map ids of the catalog
GetWorldAll(w) ==
    /\ catalog.pc[w] = "built"
    /\ catalog' = [catalog EXCEPT !.seen[w] = catalog.map_id_path, !.pc[w] = "read"]
    /\ UNCHANGED <<worldvars, stamina, pipe, wp>>

\* the content directory is rewritten (a content update before a hot reload)
EditContent ==
    /\ catalog.disk < MaxVersion
    /\ catalog' = [catalog EXCEPT !.disk = @ + 1, !.reinit = FALSE,
                                  !.served = [world |-> 0, phase |-> 0]]
    /\ UNCHANGED <<worldvars, stamina, pipe, wp>>

\* MapParser.re_init, called while no constructor is parsing: the four
\* indexes and the get_world_info cache are cleared, then parse() runs
ReInit(w) ==
    /\ catalog.pc[w] \in {"built", "read"}
    /\ \A v \in Workers : catalog.pc[v] # "parse"
    /\ ~catalog.reinit
    /\ catalog' = [catalog EXCEPT
           !.map_id_path = FirstParse.map_id_path,
           !.chapter_info = FirstParse.chapter_info,
           !.chapter_info_without_repeatable = FirstParse.chapter_info_without_repeatable,
           !.world_cache = [id \in FileIds |-> catalog.disk],
           !.phases = TRUE,
           !.reinit = TRUE,
           !.served = [world |-> 0, phase |-> 0]]
    /\ UNCHANGED <<worldvars, stamina, pipe, wp>>

\* MapParser.get_world_info(map_id) of a map of the catalog
GetWorldInfo(w) ==
    /\ catalog.pc[w] \in {"built", "read"}
    /\ \E id \in catalog.map_id_path :
       \E v \in {Cached(catalog.world_cache[id], catalog.disk)} :
           catalog' = [catalog EXCEPT !.world_cache[id] = v, !.served.world = v]
    /\ UNCHANGED <<worldvars, stamina, pipe, wp>>

\* MapParser.get_lephon_nell_phase(phase), for one phase
GetLephonNellPhase(w) ==
    /\ catalog.pc[w] \in {"built", "read"}
    /\ catalog.phases
    /\ \E v \in {Cached(catalog.phase_cache, catalog.disk)} :
           catalog' = [catalog EXCEPT !.phase_cache = v, !.served.phase = v]
    /\ UNCHANGED <<worldvars, stamina, pipe, wp>>

CatalogNext ==
    \/ EditContent
    \/ \E w \in Workers :
           \/ Construct(w) \/ ParseFile(w) \/ ParsePhases(w) \/ GetWorldAll(w)
           \/ ReInit(w) \/ GetWorldInfo(w) \/ GetLephonNellPhase(w)

CatalogSpec == CatalogInit /\ [][CatalogNext]_vars

-----------------------------------------------------------------------------
(* The steps of BaseWorldPlay.update, one worker at a time under the lock *)

\* rows a user can have reached when the two submissions arrive
PipeStarts ==
    {[map |-> "plain_e", row |-> Row(0, 0, FALSE)],
     [map |-> "plain_e", row |-> NoRow],
     [map |-> LEPHON, row |-> Row(4, 4, FALSE)],
     [map |-> "beyond_c", row |-> Row(0, 0, FALSE)],
     [map |-> "breached_d", row |-> Row(0, 0, FALSE)]}

PipeInit ==
    \E start \in PipeStarts, boost \in {0, 1} :
        /\ world = {LEPHON, start.map}
        /\ current_map = start.map
        /\ user_world = [m \in MapIds |-> IF m = start.map THEN start.row ELSE NoRow]
        /\ lephon_nell_state = 0
        /\ last = NoLast
        /\ claimed = {}
        /\ stamina = NoStamina
        /\ catalog = NoCatalog
        /\ wp = NoPlay
        /\ pipe = [NoPipe EXCEPT !.boost = boost,
                                 !.db0 = Tables(user_world, 0, boost)]

\* faulty variant of PipeBegin: the submission does not wait for the lock
PipeBeginUnlocked(w) ==
    /\ pipe.pc[w] = "idle"
    /\ \E sv \in PipeValues, hook \in Hooks, fail \in Failures :
       \E sv2 \in (IF hook = "reclimb" THEN {sv, 1} ELSE {sv}),
          fresh \in (IF hook = "reclimb" /\ current_map = LEPHON THEN BOOLEAN ELSE {FALSE}) :
           pipe' = [pipe EXCEPT
               !.pc[w] = "begun",
               !.inp[w] = [sv |-> sv, hook |-> hook, sv2 |-> sv2, fresh |-> fresh, fail |-> fail],
               !.snap[w] = Tables(user_world, lephon_nell_state, pipe.boost)]
    /\ UNCHANGED <<worldvars, stamina, catalog, wp>>

\* the submission takes the user's lock and opens its transaction
PipeBegin(w) ==
    /\ pipe.pc[w] = "idle"
    /\ pipe.lock = 0
    /\ \E sv \in PipeValues, hook \in Hooks, fail \in Failures :
       \E sv2 \in (IF hook = "reclimb" THEN {sv, 1} ELSE {sv}),
          fresh \in (IF hook = "reclimb" /\ current_map = LEPHON THEN BOOLEAN ELSE {FALSE}) :
           pipe' = [pipe EXCEPT
               !.pc[w] = "begun", !.lock = w,
               !.inp[w] = [sv |-> sv, hook |-> hook, sv2 |-> sv2, fresh |-> fresh, fail |-> fail],
               !.snap[w] = Tables(user_world, lephon_nell_state, pipe.boost)]
    /\ UNCHANGED <<worldvars, stamina, catalog, wp>>

\* faulty variant of PipeAbort: what the play wrote stays
PipeAbortKeep(w) ==
    /\ pipe' = [pipe EXCEPT !.pc[w] = "failed",
                            !.lock = IF pipe.lock = w THEN 0 ELSE @]
    /\ UNCHANGED <<worldvars, stamina, catalog, wp>>

\* an exception leaves update(): the transaction is rolled back, the lock released
PipeAbort(w) ==
    /\ pipe' = [pipe EXCEPT !.pc[w] = "failed",
                            !.lock = IF pipe.lock = w THEN 0 ELSE @,
                            !.boost = pipe.snap[w].boost,
                            !.claimed[w] = <<>>]
    /\ user_world' = pipe.snap[w].uw
    /\ lephon_nell_state' = pipe.snap[w].st
    /\ UNCHANGED <<world, current_map, last, stamina, catalog, wp, claimed>>

\* before_update: a used prog_boost is reset
PipeBeforeUpdate(w) ==
    /\ pipe.pc[w] = "begun"
    /\ pipe' = [pipe EXCEPT !.pc[w] = "updated",
                            !.log[w] = Append(@, "before_update"),
                            !.boost = IF pipe.snap[w].boost # 0 THEN 0 ELSE @]
    /\ UNCHANGED <<worldvars, stamina, catalog, wp>>

\* before_calculate: the skill pre-hook
PipeBeforeCalculate(w) ==
    /\ pipe.pc[w] = "updated"
    /\ IF pipe.inp[w].fail = "pre"
       THEN PipeAbort(w)
       ELSE /\ pipe' = [pipe EXCEPT !.pc[w] = "calculated",
                                    !.log[w] = Append(@, "before_calculate")]
            /\ UNCHANGED <<worldvars, stamina, catalog, wp>>

\* faulty variant of PipeClimb: the climb stores the row itself
PipeClimbPersisting(w) ==
    /\ pipe.pc[w] = "calculated"
    /\ \E r \in {FirstClimb(current_map, user_world[current_map], lephon_nell_state,
                             pipe.inp[w].sv, FALSE, 1)} :
           IF r.err # "none"
           THEN PipeAbort(w)
           ELSE /\ pipe' = [pipe EXCEPT !.pc[w] = "climbed", !.obj[w] = r,
                                        !.log[w] = Append(@, "climb")]
                /\ lephon_nell_state' = r.st
                /\ user_world' = [user_world EXCEPT ![current_map] =
                                      Row(r.um.pos, r.um.cap, r.um.locked)]
                /\ UNCHANGED <<world, current_map, last, stamina, catalog, wp, claimed>>

\* current_map.climb (reclimb in the breached play): the phase is written
PipeClimb(w) ==
    /\ pipe.pc[w] = "calculated"
    /\ \E r \in {FirstClimb(current_map, user_world[current_map], lephon_nell_state,
                             pipe.inp[w].sv, FALSE, 1)} :
           IF r.err # "none"
           THEN PipeAbort(w)
           ELSE /\ pipe' = [pipe EXCEPT !.pc[w] = "climbed", !.obj[w] = r,
                                        !.log[w] = Append(@, "climb")]
                /\ lephon_nell_state' = r.st
                /\ UNCHANGED <<world, current_map, user_world, last, stamina, catalog, wp, claimed>>

\* after_climb: the skill post-hook, which may reclimb
PipeAfterClimb(w) ==
    /\ pipe.pc[w] = "climbed"
    /\ \E i \in {pipe.inp[w]}, o \in {pipe.obj[w]} :
       \E r \in {IF i.hook = "reclimb"
                  THEN Reclimb(o.um, user_world[current_map],
                               UserLephonState(pipe.snap[w].st, o.st, i.fresh),
                               o.st, i.sv2, FALSE, 1)
                  ELSE o} :
           IF i.fail = "post" \/ r.err # "none"
           THEN PipeAbort(w)
           ELSE /\ pipe' = [pipe EXCEPT !.pc[w] = "hooked", !.obj[w] = r,
                                        !.log[w] = Append(@, "after_climb")]
                /\ lephon_nell_state' = r.st
                /\ UNCHANGED <<world, current_map, user_world, last, stamina, catalog, wp, claimed>>

\* after_update: the rewards of the climb are claimed
PipeGrant(w) ==
    /\ pipe.pc[w] = "hooked"
    /\ IF ClimbedError(pipe.obj[w].um) # "none"
       THEN PipeAbort(w)
       ELSE /\ pipe' = [pipe EXCEPT !.pc[w] = "granted",
                                    !.claimed[w] = RewardsForClimbing(pipe.obj[w].um),
                                    !.log[w] = Append(@, "grant")]
            /\ UNCHANGED <<worldvars, stamina, catalog, wp>>

\* after_update: the wrap of a repeatable map and current_map.update()
PipePersist(w) ==
    /\ pipe.pc[w] = "granted"
    /\ \E um \in {Wrap(pipe.obj[w].um)} :
           user_world' = [user_world EXCEPT ![current_map] = Row(um.pos, um.cap, um.locked)]
    /\ pipe' = [pipe EXCEPT !.pc[w] = "persisted", !.log[w] = Append(@, "persist")]
    /\ UNCHANGED <<world, current_map, lephon_nell_state, last, stamina, catalog, wp, claimed>>

\* the transaction commits and the lock is released
PipeCommit(w) ==
    /\ pipe.pc[w] = "persisted"
    /\ pipe' = [pipe EXCEPT !.pc[w] = "done", !.lock = IF pipe.lock = w THEN 0 ELSE @]
    /\ UNCHANGED <<worldvars, stamina, catalog, wp>>

PipeNext ==
    \E w \in Workers :
        \/ PipeBegin(w)
        \/ PipeBeforeUpdate(w)
        \/ PipeBeforeCalculate(w)
        \/ PipeClimb(w)
        \/ PipeAfterClimb(w)
        \/ PipeGrant(w)
        \/ PipePersist(w)
        \/ PipeCommit(w)

PipeSpec == PipeInit /\ [][PipeNext]_vars

\* update() of one play run alone on the tables db
RunPlay(db, m, i) ==
    LET r1 == FirstClimb(m, db.uw[m], db.st, i.sv, FALSE, 1)
        r2 == IF i.hook = "reclimb" /\ r1.err = "none"
              THEN Reclimb(r1.um, db.uw[m], UserLephonState(db.st, r1.st, i.fresh),
                           r1.st, i.sv2, FALSE, 1)
              ELSE r1
        r3 == AfterUpdate(r2)
    IN  IF i.fail # "none" \/ r3.err # "none"
        THEN [db |-> db, granted |-> <<>>, ok |-> FALSE]
        ELSE [db |-> Tables([db.uw EXCEPT ![m] = Row(r3.um.pos, r3.um.cap, r3.um.locked)],
                            r3.st,
                            IF db.boost # 0 THEN 0 ELSE db.boost),
              granted |-> RewardsForClimbing(r2.um), ok |-> TRUE]

-----------------------------------------------------------------------------
(* The world plays of one user, one after the other *)

SkillInit ==
    /\ NoWorld
    /\ stamina = NoStamina
    /\ catalog = NoCatalog
    /\ pipe = NoPipe
    /\ wp \in {[NoPlay EXCEPT !.gauge = g] : g \in {0, 150000}}

\* WorldPlay.update (user_play.beyond_gauge = 0).  flag: the first climbed
\* step has restrict_id and restrict_type (luna_uncap), the map has a stamina
\* cost (skill_kanae_uncap).  svs: the step values passed to climb and reclimb
WorldPlayUpdate ==
    /\ wp.op = "none"
    /\ wp.plays < MaxPlays
    /\ \E in \in PlayInputs, sealed \in BOOLEAN :
       \E skill \in (IF sealed THEN {"none"}
                     ELSE {"none", "luna_uncap", "ayu_uncap", "skill_kanae_uncap"}) :
       \E flag \in (IF skill \in {"luna_uncap", "skill_kanae_uncap"} THEN BOOLEAN ELSE {FALSE}),
          draw \in (IF skill = "ayu_uncap" THEN -AyuBonus .. AyuBonus ELSE {0}) :
       \E pn \in {ProgressNormalized("normal", in.rating, 1, IF sealed THEN 50 ELSE in.stat)},
          times \in {StepTimes(in.mul, 0)},
          added \in {IF ~sealed /\ wp.kanae > 0 THEN wp.kanae ELSE 0} :
       \E err \in {IF skill = "luna_uncap" /\ flag THEN "AttributeError" ELSE "none"},
          bonus \in {IF skill = "ayu_uncap" THEN AyuClamp(pn, draw) ELSE 0},
          stores \in {skill = "skill_kanae_uncap" /\ flag} :
       \E first \in {FinalProgress("normal", pn, 0, times, added, 0)},
          again \in {FinalProgress("normal", pn, bonus, times, added, IF stores THEN pn ELSE 0)} :
           wp' = [kanae |-> IF err # "none" THEN wp.kanae
                            ELSE KanaeAfter(wp.kanae, stores, pn, added),
                  gauge |-> IF err # "none" THEN wp.gauge
                            ELSE NormalGauge(wp.gauge, in.rating),
                  op |-> "normal", err |-> err, skill |-> skill, sealed |-> sealed,
                  flag |-> flag, rating |-> in.rating, pn |-> pn, times |-> times,
                  draw |-> draw, bonus |-> bonus, added |-> added, stores |-> stores,
                  usage |-> 0,
                  svs |-> IF skill = "ayu_uncap" \/ stores THEN <<first, again>> ELSE <<first>>,
                  prek |-> wp.kanae, preg |-> wp.gauge, plays |-> wp.plays + 1,
                  osi |-> Unset, psi |-> Unset, prog |-> 0, law |-> Unset]
    /\ UNCHANGED <<worldvars, stamina, catalog, pipe>>

\* BeyondWorldPlay.update (user_play.beyond_gauge # 0): before_update takes
\* nothing from the kanae store, final_progress has no bonus and no kanae
\* term, after_update spends the gauge
BeyondPlayUpdate ==
    /\ wp.op = "none"
    /\ wp.plays < MaxPlays
    /\ \E in \in PlayInputs, clear \in ClearTypes,
          usage \in {TokenUsage(u) : u \in {0, 100}},
          skill \in {"none", "skill_kanae_uncap"} :
       \E pn \in {ProgressNormalized("beyond", in.rating, clear, in.stat)},
          times \in {StepTimes(in.mul, usage)} :
       \E final \in {FinalProgress("beyond", pn, 0, times, 0, 0)} :
           wp' = [kanae |-> wp.kanae,
                  gauge |-> BeyondGauge(wp.gauge, usage),
                  op |-> "beyond", err |-> "none", skill |-> skill, sealed |-> FALSE,
                  flag |-> skill = "skill_kanae_uncap", rating |-> in.rating,
                  pn |-> pn, times |-> times, draw |-> 0, bonus |-> 0, added |-> 0,
                  stores |-> FALSE, usage |-> usage,
                  svs |-> IF skill = "skill_kanae_uncap" THEN <<final, final>> ELSE <<final>>,
                  prek |-> wp.kanae, preg |-> wp.gauge, plays |-> wp.plays + 1,
                  osi |-> Unset, psi |-> Unset, prog |-> 0, law |-> Unset]
    /\ UNCHANGED <<worldvars, stamina, catalog, pipe>>

\* BreachedWorldPlay.update on a map with new_law = antiheroism and without
\* disable_over: a partner of overdrive 50 and frag 50, rating 0, every
\* multiplier at its default.  osi, psi: over_skill_increase and
\* prog_skill_increase as the skill pre-hook left them
BreachedPlayUpdate ==
    /\ wp.op = "none"
    /\ wp.plays < MaxPlays
    /\ \E clear \in ClearTypes, usage \in {TokenUsage(u) : u \in {0, 100}},
          osi \in {Unset, 10}, psi \in {Unset, 10}, prog \in {50, 100} :
       \E law \in {Antiheroism(50, 50, prog, osi, psi)},
          times \in {StepTimes(<<1, 100, 0>>, usage)} :
       \E pn \in {IF law.err # "none" THEN 0
                   ELSE (ProgressNormalized("beyond", 0, clear, 50 + osi) * law.value) \div 50} :
           wp' = [kanae |-> wp.kanae,
                  gauge |-> IF law.err # "none" THEN wp.gauge
                            ELSE BeyondGauge(wp.gauge, usage),
                  op |-> "breached", err |-> law.err, skill |-> "none", sealed |-> FALSE,
                  flag |-> FALSE, rating |-> 0, pn |-> pn, times |-> times,
                  draw |-> 0, bonus |-> 0, added |-> 0, stores |-> FALSE, usage |-> usage,
                  svs |-> IF law.err # "none" THEN <<>>
                          ELSE <<FinalProgress("beyond", pn, 0, times, 0, 0)>>,
                  prek |-> wp.kanae, preg |-> wp.gauge, plays |-> wp.plays + 1,
                  osi |-> osi, psi |-> psi, prog |-> prog, law |-> law.value]
    /\ UNCHANGED <<worldvars, stamina, catalog, pipe>>

\* the response is sent; the user's columns stay
SkillRespond ==
    /\ wp.op # "none"
    /\ wp' = [NoPlay EXCEPT !.kanae = wp.kanae, !.gauge = wp.gauge, !.plays = wp.plays]
    /\ UNCHANGED <<worldvars, stamina, catalog, pipe>>

SkillNext == WorldPlayUpdate \/ BeyondPlayUpdate \/ BreachedPlayUpdate \/ SkillRespond

SkillSpec == SkillInit /\ [][SkillNext]_vars

TypeOK ==
    /\ world \subseteq MapIds
    /\ current_map \in MapIds \cup {""}
    /\ DOMAIN user_world = MapIds
    /\ lephon_nell_state \in 0 .. 3
    /\ last.op \in {"none", "play"}

Init ==
    /\ world \in {{LEPHON, m} : m \in OtherMaps}
    /\ current_map = ""
    /\ user_world = [m \in MapIds |-> NoRow]
    /\ lephon_nell_state = 0
    /\ last = NoLast
    /\ claimed = {}
    /\ stamina = NoStamina
    /\ catalog = NoCatalog
    /\ wp = NoPlay
    /\ pipe = NoPipe

\* no request is being answered
Idle == last.op = "none"

\* the response of the play is sent and its objects are dropped
Respond ==
    /\ ~Idle
    /\ last' = NoLast
    /\ UNCHANGED <<world, current_map, user_world, lephon_nell_state, elsewhere, claimed>>

\* UserMap.to_dict / select on a map of the catalog: the row is created lazily
SelectMap ==
    \E m \in world :
        /\ Idle
        /\ user_world' = [user_world EXCEPT ![m] =
                             IF user_world[m].exists THEN user_world[m]
                             ELSE Row(0, 0, TRUE)]
        /\ last' = NoLast
        /\ UNCHANGED <<world, current_map, lephon_nell_state, elsewhere, claimed>>

\* faulty variant of Unlocked: the item is looked up on an unlocked map too
UnlockedRechecked(um, owns) ==
    [um EXCEPT !.pos = IF um.locked THEN 0 ELSE um.pos,
               !.cap = IF um.locked THEN 0 ELSE um.cap,
               !.locked = (RequireType(um.map) \in {"pack", "single"} /\ ~owns)]

\* faulty variant of Unlocked: the item of a pack or single map is not looked up
UnlockedUnowned(um, owns) ==
    IF um.locked THEN [um EXCEPT !.pos = 0, !.cap = 0, !.locked = FALSE] ELSE um

\* UserMap.unlock; owns: whether the user owns the required pack or single
Unlocked(um, owns) ==
    IF um.locked
    THEN [um EXCEPT !.pos = 0, !.cap = 0,
                    !.locked = (RequireType(um.map) \in {"pack", "single"} /\ ~owns)]
    ELSE um

\* the value unlock returns
UnlockReturn(um) == ~um.locked

Unlock ==
    \E m \in world, owns \in BOOLEAN :
        LET um == Unlocked(Select(NewUserMap(m), user_world[m], lephon_nell_state), owns)
        IN  /\ Idle
            /\ user_world' = [user_world EXCEPT ![m] = Row(um.pos, um.cap, um.locked)]
            /\ last' = NoLast
            /\ UNCHANGED <<world, current_map, lephon_nell_state, elsewhere, claimed>>

\* UserMap.change_user_current_map
ChangeMap ==
    \E m \in world :
        /\ Idle
        /\ current_map' = m
        /\ last' = NoLast
        /\ UNCHANGED <<world, user_world, lephon_nell_state, elsewhere, claimed>>

\* the steps of a step list that a list of rewards names
Claims(sl, rewards) == {<<sl, rewards[k].position>> : k \in 1 .. Len(rewards)}

\* one world-mode play: update() of the play variant of the current map, with
\* final_progress drawn from values
PlayWith(values) ==
    /\ Idle
    /\ current_map # ""
    /\ \E sv \in values, toggle \in BOOLEAN, clear \in ClearTypes, hook \in Hooks :
        \E m \in {current_map}, row \in {user_world[current_map]}, ust \in {lephon_nell_state} :
        \E entry1 \in {Select(NewUserMap(m), row, ust)},
           r1 \in {FirstClimb(m, row, ust, sv, toggle, clear)} :
        \E again \in {hook = "reclimb" /\ r1.err = "none"} :
        \E sv2 \in (IF again THEN values ELSE {sv}),
           fresh \in (IF again /\ r1.st # ust THEN BOOLEAN ELSE {FALSE}) :
        \E ust2 \in {UserLephonState(ust, r1.st, fresh)},
           entry2 \in {At(r1.um, r1.um.ppos, r1.um.pcap)} :
        \E r2 \in {IF again THEN Reclimb(r1.um, row, ust2, r1.st, sv2, toggle, clear) ELSE r1} :
        \E r3 \in {AfterUpdate(r2)} :
        \E shown \in {[op |-> "play", map |-> m, err |-> r3.err, hook |-> hook,
                        sv |-> IF again THEN sv2 ELSE sv,
                        toggle |-> toggle, clear |-> clear,
                        ust |-> IF again THEN ust2 ELSE ust, st |-> r3.st,
                        pre |-> IF again THEN entry2 ELSE entry1,
                        um |-> r2.um, branch |-> r2.branch,
                        granted |-> Granted(r2),
                        plus |-> IF r3.err = "none" THEN PlusStamina(r2.um) ELSE 0,
                        first |-> IF again /\ sv2 = sv THEN FirstOf(r1, ust) ELSE NoFirst]} :
            IF r3.err # "none"
            THEN /\ last' = shown
                 /\ UNCHANGED <<world, current_map, user_world, lephon_nell_state, elsewhere>>
            ELSE /\ user_world' = [user_world EXCEPT ![m] =
                                      Row(r3.um.pos, r3.um.cap, r3.um.locked)]
                 /\ lephon_nell_state' = r3.st
                 /\ last' = shown
                 /\ UNCHANGED <<world, current_map, elsewhere>>

Play == PlayWith(StepValues) /\ UNCHANGED claimed

Next == SelectMap \/ Unlock \/ ChangeMap \/ Play \/ Respond

Spec == Init /\ [][Next]_vars

-----------------------------------------------------------------------------
(* The same requests with the items the user has been given: after_update
   hands the items of rewards_for_climbing to user_claim_item *)

ClaimPlay ==
    /\ PlayWith(StepValues)
    /\ claimed' = IF last'.err = "none"
                  THEN claimed \cup Claims(last'.um.steps, last'.granted)
                  ELSE claimed

ClaimNext == SelectMap \/ Unlock \/ ChangeMap \/ ClaimPlay \/ Respond

ClaimSpec == Init /\ [][ClaimNext]_vars

-----------------------------------------------------------------------------
(* The reward-sweep scenario: a user whose catalog is the five-step map of
   capture 10, played with the progress values of the scenario *)

SweepValues == {3, 10, 25}

SweepInit ==
    /\ world = ScenarioMaps
    /\ current_map = ""
    /\ user_world = [m \in MapIds |-> NoRow]
    /\ lephon_nell_state = 0
    /\ last = NoLast
    /\ claimed = {}
    /\ stamina = NoStamina
    /\ catalog = NoCatalog
    /\ wp = NoPlay
    /\ pipe = NoPipe

SweepPlay == PlayWith(SweepValues) /\ UNCHANGED claimed

SweepNext == SelectMap \/ Unlock \/ ChangeMap \/ SweepPlay \/ Respond

SweepSpec == SweepInit /\ [][SweepNext]_vars

-----------------------------------------------------------------------------
(* Properties *)

\* the last request was a play that was persisted
PlayOK == last.op = "play" /\ last.err = "none"

\* the step list a stored row of map m is read against
RowList(m) == IF m = LEPHON THEN PhaseList(lephon_nell_state) ELSE m

\* the climb of the last play left the player where the climb found them
Stayed == last.um.pos = last.pre.pos /\ last.um.cap = last.pre.cap

\* the tiles from the entry position up to, not including, the position reached
Crossed == last.pre.pos .. (last.um.pos - 1)

WallTags == {"wall_nell", "wall_impossible"}

\* C1: every persisted row satisfies 0 <= curr_position < step_count of its
\* map and curr_capture >= 0
C1_PersistedInRange ==
    \A m \in MapIds :
        user_world[m].exists =>
            /\ 0 <= user_world[m].pos
            /\ user_world[m].pos < StepCount(RowList(m))
            /\ user_world[m].cap >= 0

\* C2: on a non-beyond map the persisted curr_capture is strictly less than
\* the capture of the step at curr_position, unless that step is the last one
C2_CaptureBelowStep ==
    \A m \in MapIds :
        (user_world[m].exists /\ ~IsBeyond(m)) =>
            \/ user_world[m].pos = StepCount(RowList(m)) - 1
            \/ user_world[m].cap < StepCapture(RowList(m), user_world[m].pos)

\* C3: on a map other than lephon_nell the climb gives the position and the
\* capture it gives a user in phase 0, and takes no teleport, recoil or
\* final-phase return
C3_PhaseIndependent ==
    (PlayOK /\ last.map # LEPHON /\ last.hook = "none") =>
        LET o == FirstClimb(last.map, Row(last.pre.pos, last.pre.cap, last.pre.locked),
                            0, last.sv, last.toggle, last.clear)
        IN  /\ o.err = "none"
            /\ o.um.pos = last.um.pos
            /\ o.um.cap = last.um.cap
            /\ last.branch \notin {"teleport", "recoil", "final"}

\* C4: on lephon_nell a climb in phase 0 from a wall_impossible step persists
\* phase 1, works on the phase-1 step list, ends at (44, 1) and sets
\* steps_modified
C4_PhaseZeroToOne ==
    (/\ PlayOK /\ last.map = LEPHON /\ last.hook = "none" /\ last.ust = 0
     /\ "wall_impossible" \in StepTags(last.pre.steps, last.pre.pos)) =>
        /\ last.st = 1
        /\ lephon_nell_state = 1
        /\ last.um.steps = PhaseList(1)
        /\ last.um.pos = Phase2Pos
        /\ last.um.cap = 1
        /\ last.um.smod

\* C9: on a beyond map a climb with step_value >= 0 sets curr_capture to
\* min(prev_capture + step_value, beyond_health), so the capture neither
\* decreases nor exceeds beyond_health
C9_BeyondCapture ==
    (PlayOK /\ IsBeyond(last.map) /\ last.sv >= 0) =>
        /\ last.um.cap = Min(last.pre.cap + last.sv, BeyondHealth(last.map))
        /\ last.um.cap >= last.pre.cap
        /\ last.um.cap <= BeyondHealth(last.map)

\* C5 as stated: a wall_impossible step of the map is never passed, and a
\* player standing on it stays where they are, whatever the climb does
C5_WallAlwaysBlocks ==
    PlayOK =>
        /\ \A k \in Crossed : "wall_impossible" \notin StepTags(last.pre.steps, k)
        /\ "wall_impossible" \in StepTags(last.pre.steps, last.pre.pos) => Stayed

\* C5: on a non-beyond map a climb that takes no phase teleport never moves the
\* player from a position <= k to a position > k when step k of the step list
\* in use carries wall_impossible (walk and nell-toggle jump alike); a player
\* standing on such a step stays at (k, c) unless the final-phase recoil acts
C5_WallImpossibleBlocks ==
    (PlayOK /\ ~IsBeyond(last.map) /\ last.branch # "teleport") =>
        /\ \A k \in Crossed : "wall_impossible" \notin StepTags(last.um.steps, k)
        /\ ("wall_impossible" \in StepTags(last.um.steps, last.pre.pos)
            /\ last.branch # "recoil") => Stayed

\* a walk with budget to go further has stopped on the wall_impossible step
C5_Witness ==
    /\ PlayOK /\ last.map = "normal_a" /\ last.branch = "normal"
    /\ last.pre.pos = 1 /\ last.pre.cap = 1 /\ last.sv = 3
    /\ last.um.pos = 2 /\ last.um.cap = 0
    /\ "wall_impossible" \in StepTags(last.um.steps, 2)

\* C6 as stated: without lephon_active no wall_nell step is passed, and with
\* lephon_active and nell_toggle false the player does not move
C6_NellAlwaysHolds ==
    (PlayOK /\ ~IsBeyond(last.map)) =>
        /\ ~last.um.lactive =>
               \A k \in Crossed : "wall_nell" \notin StepTags(last.um.steps, k)
        /\ (last.um.lactive /\ ~last.toggle) => Stayed

\* C6: on a non-beyond map, apart from the phase teleports, a climb in which
\* lephon_active is false passes no wall_nell step of the step list in use, and
\* a climb from a tagged step with lephon_active true and nell_toggle false
\* does not move the player
C6_WallNellBlocks ==
    (PlayOK /\ ~IsBeyond(last.map) /\ last.branch # "teleport") =>
        /\ ~last.um.lactive =>
               \A k \in Crossed : "wall_nell" \notin StepTags(last.um.steps, k)
        /\ (last.um.lactive /\ ~last.toggle
            /\ StepTags(last.pre.steps, last.pre.pos) # {}) => Stayed

\* a walk without lephon_active and with budget to go further has stopped on
\* the wall_nell step
C6_Witness ==
    /\ PlayOK /\ last.map = LEPHON /\ last.branch = "normal" /\ ~last.um.lactive
    /\ last.pre.pos = 1 /\ last.pre.cap = 1 /\ last.sv = 3
    /\ last.um.pos = 2 /\ last.um.cap = 0
    /\ "wall_nell" \in StepTags(last.um.steps, 2)

\* C7 as stated: with step_value 0 only a phase teleport moves the player
C7_ZeroOnlyTeleports ==
    (PlayOK /\ last.sv = 0 /\ last.branch # "teleport") => Stayed

\* C7: a climb with step_value 0 leaves (curr_position, curr_capture) unchanged
\* on normal and beyond maps, except for the phase teleports, the nell-toggle
\* jump and the final-phase failure recoil
C7_ZeroStepStays ==
    (PlayOK /\ last.sv = 0 /\ last.branch \notin {"teleport", "jump", "recoil"}) => Stayed

\* a walk with step_value 0 from the middle of a tile
C7_Witness ==
    /\ PlayOK /\ last.sv = 0 /\ last.branch = "normal"
    /\ last.pre.pos > 0 /\ last.pre.cap > 0 /\ Stayed

C10_RepeatableWraps ==
    /\ \A m \in MapIds :
           (IsRepeatable(m) /\ user_world[m].exists) =>
               user_world[m].pos # StepCount(m) - 1
    /\ (PlayOK /\ IsRepeatable(last.map) /\ last.um.pos = StepCount(last.um.steps) - 1) =>
           user_world[last.map].pos = 0
    /\ (Idle /\ IsRepeatable(current_map)) =>
           \A sv \in 1 .. MaxStep, toggle \in BOOLEAN, clear \in ClearTypes :
               LET o == AfterUpdate(FirstClimb(current_map,
                                               Row(StepCount(current_map) - 1, 0, FALSE),
                                               lephon_nell_state, sv, toggle, clear))
               IN  o.err = "none" => o.um.pos = 0

\* a play walked onto the final tile of the repeatable map and was stored at 0
C10_Witness ==
    /\ PlayOK /\ IsRepeatable(last.map) /\ last.branch = "normal"
    /\ last.pre.pos < last.um.pos
    /\ last.um.pos = StepCount(last.um.steps) - 1
    /\ user_world[last.map].pos = 0

\* ---------------------------------------------------------------------------
\* Rewards of a climb

\* the tiles of the map the last play climbed
LastTiles == 0 .. StepCount(last.um.steps) - 1

LastLow == Min(last.um.ppos, last.um.pos)

LastHigh == Max(last.um.ppos, last.um.pos)

\* the positions of the tiles whose items the last play granted
GrantedAt == {last.granted[k].position : k \in 1 .. Len(last.granted)}

\* each granted entry carries the items of its tile, and no tile is granted twice
GrantedWellFormed ==
    /\ \A k \in 1 .. Len(last.granted) :
           /\ last.granted[k].position \in LastTiles
           /\ last.granted[k].items = Items(last.um.steps, last.granted[k].position)
    /\ Cardinality(GrantedAt) = Len(last.granted)

\* C11 (as stated): after a climb the traversed steps are steps[min(prev, curr) ..
\* max(prev, curr)] and the granted rewards are the items of exactly those steps
C11_RewardsOfTraversed ==
    PlayOK =>
        /\ StepsForClimbing(last.um) = {i \in LastTiles : LastLow <= i /\ i <= LastHigh}
        /\ GrantedWellFormed
        /\ \A i \in LastTiles :
               i \in GrantedAt <=>
                   (LastLow <= i /\ i <= LastHigh /\ Items(last.um.steps, i) # {})

\* C11 (amended): after a climb the traversed steps are steps[min(prev, curr) ..
\* max(prev, curr)], and the granted rewards are the items of the traversed steps
\* above the lower endpoint, steps[min(prev, curr) + 1 .. max(prev, curr)]
C11_RewardsAboveLowerEnd ==
    PlayOK =>
        LET lo == LastLow
            hi == LastHigh
            at == GrantedAt
        IN  /\ StepsForClimbing(last.um) = {i \in LastTiles : lo <= i /\ i <= hi}
            /\ GrantedWellFormed
            /\ \A i \in LastTiles :
                   i \in at <=> (lo < i /\ i <= hi /\ Items(last.um.steps, i) # {})

\* a play left a tile that carries items and reached a higher tile that carries
\* items: the higher tile's items were granted, the left tile's were not
C11_Witness ==
    /\ PlayOK /\ last.um.ppos < last.um.pos
    /\ Items(last.um.steps, last.um.ppos) # {}
    /\ Items(last.um.steps, last.um.pos) # {}
    /\ last.um.pos \in GrantedAt
    /\ last.um.ppos \notin GrantedAt

\* the last play is the climb of the reward-sweep scenario: from (1, 3) on the
\* five-step map with final_progress = 25
SweepClimb ==
    /\ PlayOK /\ last.map \in ScenarioMaps
    /\ last.pre.pos = 1 /\ last.pre.cap = 3
    /\ last.sv = 25

\* C12 (as stated): the sweep from (1, 3) with final_progress = 25 lands in step 4
\* at capture 8 and grants the items of steps 2, 3 and 4
C12_SweepLandsInFour ==
    SweepClimb =>
        /\ last.um.pos = 4 /\ last.um.cap = 8
        /\ GrantedWellFormed
        /\ GrantedAt = {2, 3, 4}

\* C12 (amended): the sweep from (1, 3) with final_progress = 25 traverses steps
\* 1 and 2 fully and lands in step 3 at capture 8; the rewards granted are the
\* items of steps 2 and 3, and (3, 8) is what is persisted
C12_SweepLandsInThree ==
    SweepClimb =>
        /\ last.um.ppos = 1 /\ last.um.pcap = 3
        /\ last.um.pos = 3 /\ last.um.cap = 8
        /\ GrantedWellFormed
        /\ GrantedAt = {2, 3}
        /\ user_world[last.map] = Row(3, 8, FALSE)

\* the scenario's climb happened and was stored
C12_Witness ==
    /\ SweepClimb
    /\ last.branch = "normal"
    /\ last.um.pos > last.pre.pos
    /\ user_world[last.map].pos = last.um.pos

\* ---------------------------------------------------------------------------
\* reclimb

\* the last play climbed, and its post-hook called reclimb with the same
\* step_value
Reclimbed == last.op = "play" /\ last.first # NoFirst

\* C13: reclimb with the same step_value yields the same (curr_position,
\* curr_capture), the same (prev_position, prev_capture) and the same persisted
\* lephon phase as the first climb, on every map
C13_ReclimbIdempotent ==
    Reclimbed =>
        /\ last.err = "none"
        /\ last.um.pos = last.first.pos /\ last.um.cap = last.first.cap
        /\ last.um.ppos = last.first.ppos /\ last.um.pcap = last.first.pcap
        /\ last.st = last.first.st

\* ---------------------------------------------------------------------------
\* Errors of climb

\* the object of the last play is where it was when climb was entered
ObjectUntouched ==
    /\ last.um.pos = last.pre.pos /\ last.um.cap = last.pre.cap
    /\ last.um.ppos = last.pre.ppos /\ last.um.pcap = last.pre.pcap
    /\ last.um.hasprev = last.pre.hasprev
    /\ last.um.steps = last.pre.steps

\* C16: a climb on a locked map fails with MapLocked, leaves curr_position,
\* curr_capture and the lephon phase as they were, and a locked row never
\* leaves (0, 0)
C16_LockedMapFails ==
    /\ (last.op = "play" /\ last.pre.locked) =>
           /\ last.err = "MapLocked"
           /\ ObjectUntouched
           /\ last.st = last.ust
           /\ last.st = lephon_nell_state
           /\ last.granted = <<>>
    /\ \A m \in MapIds :
           user_world[m].locked => (user_world[m].pos = 0 /\ user_world[m].cap = 0)

\* a play was attempted on a map whose row exists and is locked
C16_Witness ==
    /\ last.op = "play" /\ last.err = "MapLocked"
    /\ user_world[last.map].exists /\ user_world[last.map].locked
    /\ last.sv > 0

\* C17: on a beyond map a climb with step_value < 0 fails, with InputError when
\* the map is unlocked (MapLocked is raised first on a locked one), and
\* curr_position, curr_capture, prev_position, prev_capture and the lephon
\* phase are as before the call
C17_NegativeOnBeyondFails ==
    (last.op = "play" /\ IsBeyond(last.map) /\ last.sv < 0) =>
        /\ last.err = (IF last.pre.locked THEN "MapLocked" ELSE "InputError")
        /\ ObjectUntouched
        /\ last.st = lephon_nell_state
        /\ last.granted = <<>>
        /\ last.hook # "reclimb" =>
               /\ user_world[last.map].pos = last.pre.pos
               /\ user_world[last.map].cap = last.pre.cap

\* a negative step_value reached the sign check of an unlocked beyond map that
\* had left its first tile
C17_Witness ==
    /\ last.op = "play" /\ IsBeyond(last.map) /\ last.sv < 0
    /\ ~last.pre.locked
    /\ last.err = "InputError"
    /\ last.pre.cap > 0

\* ---------------------------------------------------------------------------
\* Stamina

\* C20: for every integer v, stamina := v followed by a read at the same
\* instant returns v, and the value derived from the rewritten max_stamina_ts
\* at that instant equals the stored raw value
C20_StaminaRoundTrip ==
    /\ (stamina.op = "get" /\ stamina.setat = stamina.now) => stamina.read = stamina.setv
    /\ stamina.op = "set" =>
           /\ stamina.raw = stamina.setv
           /\ Derived(stamina.ts, stamina.now) = stamina.raw
           /\ Getter(stamina.ts, stamina.raw, stamina.now) = stamina.setv

\* a value below MAX_STAMINA was set after the clock had moved and was read back
\* at the same instant
C20_Witness ==
    /\ stamina.op = "get" /\ stamina.setat = stamina.now
    /\ stamina.now > 0
    /\ stamina.setv < MaxStamina
    /\ stamina.read = stamina.setv

\* a value above MAX_STAMINA was set and read back at the same instant
C20_WitnessAbove ==
    /\ stamina.op = "get" /\ stamina.setat = stamina.now
    /\ stamina.setv > MaxStamina
    /\ stamina.read = stamina.setv

\* ---------------------------------------------------------------------------
\* MapParser under concurrent construction

\* the number of times id occurs in the list
Occurrences(list, id) == Cardinality({k \in 1 .. Len(list) : list[k] = id})

\* C19: the content directory is parsed once, no map id occurs twice in the
\* chapter index or in the non-repeatable chapter index, and a worker whose
\* constructor has returned finds the whole catalog
C19_CatalogBuiltOnce ==
    /\ Cardinality({w \in Workers : catalog.pc[w] = "parse"}) <= 1
    /\ \A id \in FileIds :
           /\ Occurrences(catalog.chapter_info, id) <= 1
           /\ Occurrences(catalog.chapter_info_without_repeatable, id) <= 1
    /\ \A w \in Workers :
           /\ catalog.pc[w] \in {"built", "read"} =>
                  (catalog.map_id_path = FileIds /\ catalog.phases)
           /\ catalog.pc[w] = "read" => catalog.seen[w] = FileIds

\* ---------------------------------------------------------------------------
\* The pipeline of one play, its rollback, and two plays of one user

\* the order of the steps of update()
PipelineOrder ==
    <<"before_update", "before_calculate", "climb", "after_climb", "grant", "persist">>

\* the last climb or reclimb of worker w's play has not finished yet
StillClimbing(w) == pipe.pc[w] \in {"begun", "updated", "calculated", "climbed"}

BothAnswered == \A w \in Workers : pipe.pc[w] \in {"done", "failed"}

\* the tables and the claimed rewards are those of play a followed by play b
SerialOutcome(a, b) ==
    LET s1 == RunPlay(pipe.db0, current_map, pipe.inp[a])
        s2 == RunPlay(s1.db, current_map, pipe.inp[b])
    IN  /\ Tables(user_world, lephon_nell_state, pipe.boost) = s2.db
        /\ pipe.claimed[a] = s1.granted
        /\ pipe.claimed[b] = s2.granted
        /\ (pipe.pc[a] = "done") = s1.ok
        /\ (pipe.pc[b] = "done") = s2.ok

C28_PhaseMonotone ==
    [][(last'.op = "play" /\ last'.map = LEPHON) =>
           /\ lephon_nell_state' \in 0 .. 3
           /\ lephon_nell_state' >= lephon_nell_state
           /\ lephon_nell_state' - lephon_nell_state
                  <= (IF last'.hook = "reclimb" THEN 2 ELSE 1)
           /\ (lephon_nell_state = 3 => lephon_nell_state' = 3)]_vars

\* C29: the nell-toggle jump moves forward at most NellTiles tiles, passes no
\* wall_impossible tile, lands on the last tile with capture 0 when it runs
\* over the end, and leaves 0 <= curr_capture < steps[curr_position].capture
\* unless it landed on the last tile
C29_JumpLanding ==
    (PlayOK /\ last.hook = "none" /\ last.branch = "jump") =>
        /\ last.um.pos >= last.pre.pos
        /\ last.um.pos - last.pre.pos <= NellTiles
        /\ \A k \in Crossed : "wall_impossible" \notin StepTags(last.um.steps, k)
        /\ last.um.pos < StepCount(last.um.steps)
        /\ \/ last.um.pos = StepCount(last.um.steps) - 1
           \/ /\ 0 <= last.um.cap
              /\ last.um.cap < StepCapture(last.um.steps, last.um.pos)

\* C30: on lephon_nell a final-phase play with clear_type = 0 never raises,
\* moves back RecoilTiles tiles to max(curr_position - RecoilTiles, 0) and
\* leaves curr_capture >= 0; a final-phase play with any other clear_type ends
\* where the ordinary walk from the same tile with the same step value ends
C30_RecoilClamped ==
    (/\ last.op = "play" /\ last.map = LEPHON /\ last.hook = "none"
     /\ last.pre.lfinal /\ last.branch \in {"recoil", "final"}) =>
        IF last.clear = 0
        THEN /\ last.err = "none"
             /\ last.um.pos = Max(last.pre.pos - RecoilTiles, 0)
             /\ last.um.cap >= 0
        ELSE LET t == ForcedStep(last.um, StepTags(last.um.steps, last.pre.pos), last.sv)
                 o == NormalBranch(last.um, last.st, t)
             IN  /\ last.err = "none"
                 /\ last.um.pos = o.um.pos
                 /\ last.um.cap = o.um.cap

\* ---------------------------------------------------------------------------
\* unlock

\* the object unlock works on for map m, and the object it leaves
UnlockEntry(m) == Select(NewUserMap(m), user_world[m], lephon_nell_state)

\* C27: unlock returns true iff the map is unlocked after the call: on a locked
\* map it returns false and leaves the map locked exactly when require_type
\* is pack or single and the user does not own the item, and returns true
\* with the map unlocked in every other case; on an unlocked map it returns
\* true and changes nothing
C27_UnlockReturn ==
    \A m \in world, owns \in BOOLEAN :
        LET before == UnlockEntry(m)
            after == Unlocked(before, owns)
            refused == RequireType(m) \in {"pack", "single"} /\ ~owns
        IN  /\ UnlockReturn(after) <=> ~after.locked
            /\ before.locked =>
                   /\ refused => (~UnlockReturn(after) /\ after.locked)
                   /\ ~refused => (UnlockReturn(after) /\ ~after.locked)
            /\ ~before.locked => (UnlockReturn(after) /\ after = before)

\* the pack map was refused once (its row exists and is locked), another map
\* of the catalog is unlocked and has been played away from (0, 0)
C27_Witness ==
    /\ "normal_a" \in world
    /\ user_world["normal_a"].exists /\ user_world["normal_a"].locked
    /\ user_world[LEPHON].exists /\ ~user_world[LEPHON].locked
    /\ user_world[LEPHON].pos > 0

\* ---------------------------------------------------------------------------
\* re_init

\* C25: after re_init, and until the content files change again, every index
\* equals the one a first parse builds, with each map id once, and what
\* get_world_info and get_lephon_nell_phase serve is a parse of the files as
\* they are, never a parse cached before the re-init
C25_ReInitFresh ==
    catalog.reinit =>
        /\ catalog.map_id_path = FirstParse.map_id_path
        /\ catalog.chapter_info = FirstParse.chapter_info
        /\ catalog.chapter_info_without_repeatable
               = FirstParse.chapter_info_without_repeatable
        /\ \A id \in FileIds : Occurrences(catalog.chapter_info, id) = 1
        /\ catalog.served.world \in {0, catalog.disk}
        /\ catalog.served.phase \in {0, catalog.disk}

\* ---------------------------------------------------------------------------
\* Progress, post-hooks, the kanae store and the beyond boost gauge

\* the last request was a Normal play that was persisted
NormalOK == wp.op = "normal" /\ wp.err = "none"

\* C21: with luna_uncap, when the first climbed step has restrict_id and
\* restrict_type, the play completes, the bonus is LunaBonus and the reclimb
\* is given the final_progress that includes it
C21_LunaBonusReclimb ==
    (wp.op = "normal" /\ wp.skill = "luna_uncap" /\ wp.flag) =>
        /\ wp.err = "none"
        /\ wp.bonus = LunaBonus * 1000
        /\ Len(wp.svs) = 2
        /\ wp.svs[Len(wp.svs)] =
               FinalProgress("normal", wp.pn, LunaBonus * 1000, wp.times, wp.added, 0)

\* the bonus of ayu_uncap is the draw, raised to -progress_normalized when the
\* sum would be negative, and the reclimb is given the final_progress with it
AyuBonusClamped ==
    /\ wp.pn + wp.bonus >= 0
    /\ wp.bonus >= wp.draw * 1000
    /\ wp.pn + wp.draw * 1000 >= 0 => wp.bonus = wp.draw * 1000
    /\ wp.pn + wp.draw * 1000 < 0 => wp.pn + wp.bonus = 0
    /\ Len(wp.svs) = 2
    /\ wp.svs[2] = ((wp.pn + wp.bonus) * wp.times) \div 100 + wp.added

\* the play of the scenario: progress_normalized 8 and a draw of -10
AyuScenario == NormalOK /\ wp.skill = "ayu_uncap" /\ wp.pn = 8000 /\ wp.draw = -10

\* C22 as stated: in the scenario the bonus is -8 and final_progress is 0
C22_AyuScenarioZero ==
    /\ (NormalOK /\ wp.skill = "ayu_uncap") => AyuBonusClamped
    /\ AyuScenario => (wp.bonus = -8000 /\ wp.svs[2] = 0)

\* C22: with ayu_uncap on a Normal play the bonus is clamped so that
\* progress_normalized + bonus >= 0 for every draw and the reclimb uses the
\* resulting final_progress; in the scenario the bonus is -8 and
\* final_progress is the kanae progress released into the play, 0 when there
\* is none
C22_AyuScenarioReleased ==
    /\ (NormalOK /\ wp.skill = "ayu_uncap") => AyuBonusClamped
    /\ AyuScenario =>
           /\ wp.bonus = -8000
           /\ wp.svs[2] = wp.added
           /\ wp.prek = 0 => wp.svs[2] = 0

\* the scenario, played by a user with an empty kanae store
C22_Witness == AyuScenario /\ wp.prek = 0 /\ wp.bonus = -8000 /\ wp.svs[2] = 0

\* C23: a play that stores (skill_kanae_uncap) has its progress subtracted
\* from its final_progress and persisted; an unsealed Normal play of a user
\* with a stored value has exactly that value added to its final_progress and
\* persists 0 unless it stores anew; every other play takes nothing from the
\* store, and it and a play that fails leave the stored value as it is
C23_KanaeStoredOnce ==
    wp.op # "none" =>
        /\ wp.stores =>
               /\ NormalOK /\ ~wp.sealed
               /\ wp.svs[Len(wp.svs)] = (wp.pn * wp.times) \div 100 + wp.added - wp.pn
               /\ wp.kanae = wp.pn
        /\ (NormalOK /\ ~wp.sealed /\ wp.prek > 0) =>
               /\ wp.added = wp.prek
               /\ \A k \in 1 .. Len(wp.svs) :
                      wp.svs[k] = FinalProgress("normal", wp.pn, IF k = 1 THEN 0 ELSE wp.bonus,
                                                wp.times, 0, 0) + wp.prek
                                  - (IF k = 2 /\ wp.stores THEN wp.pn ELSE 0)
               /\ ~wp.stores => wp.kanae = 0
        /\ (wp.op = "beyond" \/ wp.sealed \/ wp.prek = 0) =>
               /\ wp.added = 0
               /\ ~wp.stores => wp.kanae = wp.prek
        /\ wp.err # "none" => (~wp.stores /\ wp.kanae = wp.prek)

\* a stored value was released into a play that stores nothing, and the store
\* is empty after it
C23_Witness ==
    /\ NormalOK /\ ~wp.stores /\ wp.prek > 0
    /\ wp.added = wp.prek /\ wp.kanae = 0 /\ wp.plays >= 2

C26_FinalProgressNonNegative ==
    (wp.op \in {"normal", "beyond"} /\ wp.bonus >= 0) =>
        /\ wp.svs # <<>>
        /\ \A k \in 1 .. Len(wp.svs) : wp.svs[k] >= 0

\* a storing play with every multiplier at its default: the reclimb is given 0
C26_Witness ==
    /\ NormalOK /\ wp.stores /\ wp.times = 100 /\ wp.added = 0
    /\ wp.svs[1] = wp.pn /\ wp.svs[2] = 0

\* ---------------------------------------------------------------------------
\* Lock state and progress

\* C38: over any sequence of select, unlock and plays a row appears at (0, 0)
\* and is read as locked when it is missing, a locked row is at (0, 0), an
\* unlocked row is never locked again, and unlock on an unlocked map changes
\* neither curr_position nor curr_capture
C38_LockAndProgress ==
    [][\A m \in MapIds :
           /\ (~user_world[m].exists /\ user_world'[m].exists) =>
                  /\ UnlockEntry(m).locked /\ UnlockEntry(m).pos = 0 /\ UnlockEntry(m).cap = 0
                  /\ user_world'[m].pos = 0 /\ user_world'[m].cap = 0
           /\ (user_world'[m].exists /\ user_world'[m].locked) =>
                  (user_world'[m].pos = 0 /\ user_world'[m].cap = 0)
           /\ (user_world[m].exists /\ ~user_world[m].locked) =>
                  /\ user_world'[m].exists /\ ~user_world'[m].locked
                  /\ \A owns \in BOOLEAN :
                         LET um == Unlocked(UnlockEntry(m), owns)
                         IN  /\ ~um.locked
                             /\ um.pos = user_world[m].pos
                             /\ um.cap = user_world[m].cap]_vars

\* the pack map was refused and is locked at (0, 0) while lephon_nell, unlocked,
\* holds capture of a play
C38_Witness ==
    /\ "normal_a" \in world
    /\ user_world["normal_a"] = Row(0, 0, TRUE)
    /\ user_world[LEPHON].exists /\ ~user_world[LEPHON].locked
    /\ user_world[LEPHON].cap > 0

\* ---------------------------------------------------------------------------
\* Distance, termination and reclimb

\* D(i, j): the capture of the tiles before i plus j
Distance(sl, i, j) == TotalCapture(sl, i) + j

\* C31: on a normal map other than lephon_nell a climb with step_value t >= 0
\* never moves the player backwards and never gives more than t, and gives
\* exactly t when no wall is met and the end of the map is not reached
C31_ClimbWithinStep ==
    (/\ PlayOK /\ last.hook = "none" /\ last.sv >= 0
     /\ ~IsBeyond(last.map) /\ last.map # LEPHON) =>
        LET before == Distance(last.um.steps, last.pre.pos, last.pre.cap)
            after == Distance(last.um.steps, last.um.pos, last.um.cap)
        IN  /\ before <= after
            /\ after <= before + last.sv
            /\ (/\ last.um.pos < StepCount(last.um.steps) - 1
                /\ \A k \in last.pre.pos .. last.um.pos :
                       StepTags(last.um.steps, k) \cap WallTags = {}) =>
                   after = before + last.sv

\* the same statement for the plays that take the walk of lines 594-622
C31_WalkWithinStep ==
    (/\ PlayOK /\ last.hook = "none" /\ last.sv >= 0 /\ last.branch = "normal"
     /\ last.map # LEPHON) =>
        LET before == Distance(last.um.steps, last.pre.pos, last.pre.cap)
            after == Distance(last.um.steps, last.um.pos, last.um.cap)
        IN  /\ before <= after
            /\ after <= before + last.sv
            /\ (/\ last.um.pos < StepCount(last.um.steps) - 1
                /\ \A k \in last.pre.pos .. last.um.pos :
                       StepTags(last.um.steps, k) \cap WallTags = {}) =>
                   after = before + last.sv

\* ---------------------------------------------------------------------------
\* Breached plays and the price of a beyond boost

\* C32: on a breached map with new_law = antiheroism every play gets
\* new_law_prog = OVER - ||OVER - FRAG| - |OVER - PROG||, an increase the skill
\* pre-hook did not set counting as 0, and goes on to the climb with the
\* multiplier new_law_prog / 50
C32_AntiheroismEveryPlay ==
    wp.op = "breached" =>
        LET over == 50 + (IF wp.osi = Unset THEN 0 ELSE wp.osi)
            prog == wp.prog + (IF wp.psi = Unset THEN 0 ELSE wp.psi)
            x == Max(over - 50, 50 - over)
            y == Max(over - prog, prog - over)
        IN  /\ wp.err = "none"
            /\ wp.law = over - Max(x - y, y - x)
            /\ Len(wp.svs) = 1

\* C39: a Beyond or Breached play whose step_times includes a non-zero
\* beyond_boost_gauge_usage reduces the gauge by that usage, and the gauge
\* stays within 0 .. 200
C39_BoostPaid ==
    /\ wp.gauge \in 0 .. 200000
    /\ (wp.op \in {"beyond", "breached"} /\ wp.err = "none" /\ wp.usage # 0) =>
           wp.gauge = wp.preg - wp.usage * 1000

\* ---------------------------------------------------------------------------
\* The post-hook reclimb

\* the play just made was reclimbed by a post-hook and went through
HookReclimbed == last'.op = "play" /\ last'.hook = "reclimb" /\ last'.err = "none"

\* one climb of the play just made from the state before it, with the final
\* step value
OneClimb ==
    FirstClimb(current_map, user_world[current_map], lephon_nell_state,
               last'.sv, last'.toggle, last'.clear)

\* C34: after a post-hook reclimb the final position is that of one climb from
\* the position and capture before the play with the adjusted final_progress,
\* and prev_position, prev_capture are still the state before the play
C34_ReclimbFromPrePlay ==
    [][HookReclimbed =>
           LET entry == Select(NewUserMap(current_map), user_world[current_map],
                               lephon_nell_state)
           IN  /\ OneClimb.err = "none"
               /\ last'.um.pos = OneClimb.um.pos
               /\ last'.um.cap = OneClimb.um.cap
               /\ last'.um.ppos = entry.pos
               /\ last'.um.pcap = entry.cap]_vars

\* the same on the maps other than lephon_nell
C34_ReclimbElsewhere ==
    [][(HookReclimbed /\ current_map # LEPHON) =>
           LET entry == Select(NewUserMap(current_map), user_world[current_map],
                               lephon_nell_state)
           IN  /\ OneClimb.err = "none"
               /\ last'.um.pos = OneClimb.um.pos
               /\ last'.um.cap = OneClimb.um.cap
               /\ last'.um.ppos = entry.pos
               /\ last'.um.pcap = entry.cap]_vars

\* ---------------------------------------------------------------------------
\* Rewards reported and rewards granted

\* the positions a list of rewards names
Positions(rewards) == {rewards[k].position : k \in 1 .. Len(rewards)}

\* C35: the rewards of the play response (to_dict after update) name the
\* steps whose items after_update claimed
C35_ReportedAreGranted ==
    PlayOK => Positions(RewardsForClimbingToDict(Wrap(last.um))) = Positions(last.granted)

\* the same for a play that ends at or ahead of prev_position and does not wrap
C35_ForwardReported ==
    (PlayOK /\ last.um.pos >= last.um.ppos /\ Wrap(last.um) = last.um) =>
        RewardsForClimbingToDict(Wrap(last.um)) = last.granted

\* ---------------------------------------------------------------------------
\* The plusstamina tile

\* C37: only a play that arrives on a plusstamina tile from a lower tile adds
\* its plus_stamina_value; a play that starts and ends on the same tile or
\* moves backwards adds nothing
C37_StaminaOnArrival ==
    (PlayOK /\ last.plus > 0) =>
        /\ last.um.pos > last.pre.pos
        /\ "plusstamina" \in StepTags(last.um.steps, last.um.pos)

\* what holds instead: stamina is added exactly when the higher of the tiles
\* the play started and ended on is a plusstamina tile
C37_StaminaOnHigherTile ==
    PlayOK =>
        (last.plus > 0 <=>
            "plusstamina" \in StepTags(last.um.steps, Max(last.um.ppos, last.um.pos)))

\* ---------------------------------------------------------------------------
\* Items granted once

\* C36: on a non-repeatable map no play grants the items of a step (a position
\* of the step list in use) whose items an earlier play has granted
C36_GrantedOnce ==
    [][(last'.op = "play" /\ last'.err = "none" /\ ~IsRepeatable(last'.map)) =>
           Claims(last'.um.steps, last'.granted) \cap claimed = {}]_vars

\* ---------------------------------------------------------------------------
\* The loops of climb end

\* the walk and the beyond scan of the last climb make at most step_count
\* iterations for every step value, the jump at most NellTiles
LoopsWithinBounds ==
    /\ last.branch = "normal" =>
           \A t \in StepValues :
               WalkCount(last.um.steps, last.pre.pos, last.pre.cap, t, last.um.lactive)
                   <= StepCount(last.um.steps)
    /\ last.branch = "beyond" =>
           \A t \in StepValues :
               BeyondCount(last.um.steps, 0, last.pre.cap + t) <= StepCount(last.um.steps)
    /\ last.branch = "jump" =>
           JumpCount(last.um.steps, last.pre.pos, NellTiles) <= NellTiles

\* C33: in every climb the walk and the beyond scan make at most step_count
\* iterations, the nell-toggle jump at most 4 and the recoil exactly 13
C33_LoopsBounded ==
    last.op = "play" =>
        /\ LoopsWithinBounds
        /\ last.branch = "recoil" =>
               RecoilCount(last.um.steps, last.pre.pos, RecoilTiles) = RecoilTiles

\* what holds instead: the recoil makes 13 iterations unless steps[i] raises
\* IndexError before, which ends the climb
C33_LoopsEnd ==
    last.op = "play" =>
        /\ LoopsWithinBounds
        /\ last.branch = "recoil" =>
               \/ RecoilCount(last.um.steps, last.pre.pos, RecoilTiles) = RecoilTiles
               \/ /\ last.err = "IndexError"
                  /\ RecoilCount(last.um.steps, last.pre.pos, RecoilTiles) < RecoilTiles

====
